---- MODULE Spec2Model ----
(***************************************************************************)
(* Personal expense tracker (todo.py): a menu loop over a CSV file.        *)
(*                                                                         *)
(* Text is modelled as a sequence of one-character strings, so that case   *)
(* conversion, prefix matching, date parsing and CSV quoting are computed  *)
(* character by character as the Python library computes them.            *)
(* Amounts are Python floats; every amount the model's inputs produce is   *)
(* a multiple of 0.5 far below 2^53, so float addition is exact and a      *)
(* float is modelled by its value in hundredths (an integer).              *)
(***************************************************************************)
EXTENDS Integers, Sequences, FiniteSets, TLC

VARIABLES
    pc,        \* position of the process: start, menu, add_date, add_amount,
               \* add_fields, exited, crashed
    file,      \* expenses.csv: [exists, lines]; a line is a text without its terminator
    choice,    \* main(): the last menu choice read (NoChoice before the first read)
    frame,     \* the locals of the operation called last (fn names the function)
    printed,   \* what the last step printed: a sequence of [text, args]
    err,       \* the exception that left main(), or "none"
    added      \* history: the records composed by the completed add_expense calls

vars == <<pc, file, choice, frame, printed, err, added>>

----------------------------------------------------------------------------
(* Bounds *)

MaxRecords == 2

MaxTopRecords == 4

----------------------------------------------------------------------------
(* Characters and str methods *)

\* the lower-case letter of every upper-case letter
LowerOf ==
    ("A" :> "a") @@ ("B" :> "b") @@ ("C" :> "c") @@ ("D" :> "d")
    @@ ("E" :> "e") @@ ("F" :> "f") @@ ("G" :> "g") @@ ("H" :> "h")
    @@ ("I" :> "i") @@ ("J" :> "j") @@ ("K" :> "k") @@ ("L" :> "l")
    @@ ("M" :> "m") @@ ("N" :> "n") @@ ("O" :> "o") @@ ("P" :> "p")
    @@ ("Q" :> "q") @@ ("R" :> "r") @@ ("S" :> "s") @@ ("T" :> "t")
    @@ ("U" :> "u") @@ ("V" :> "v") @@ ("W" :> "w") @@ ("X" :> "x")
    @@ ("Y" :> "y") @@ ("Z" :> "z")

\* the upper-case letter of every lower-case letter
UpperOf ==
    ("a" :> "A") @@ ("b" :> "B") @@ ("c" :> "C") @@ ("d" :> "D")
    @@ ("e" :> "E") @@ ("f" :> "F") @@ ("g" :> "G") @@ ("h" :> "H")
    @@ ("i" :> "I") @@ ("j" :> "J") @@ ("k" :> "K") @@ ("l" :> "L")
    @@ ("m" :> "M") @@ ("n" :> "N") @@ ("o" :> "O") @@ ("p" :> "P")
    @@ ("q" :> "Q") @@ ("r" :> "R") @@ ("s" :> "S") @@ ("t" :> "T")
    @@ ("u" :> "U") @@ ("v" :> "V") @@ ("w" :> "W") @@ ("x" :> "X")
    @@ ("y" :> "Y") @@ ("z" :> "Z")

\* the value of every decimal digit
DigitValOf ==
    ("0" :> 0) @@ ("1" :> 1) @@ ("2" :> 2) @@ ("3" :> 3) @@ ("4" :> 4)
    @@ ("5" :> 5) @@ ("6" :> 6) @@ ("7" :> 7) @@ ("8" :> 8) @@ ("9" :> 9)

DigitChars == <<"0", "1", "2", "3", "4", "5", "6", "7", "8", "9">>

IsDigit(c) == c \in DOMAIN DigitValOf

DigitVal(c) == DigitValOf[c]

LowerChar(c) == IF c \in DOMAIN LowerOf THEN LowerOf[c] ELSE c

UpperChar(c) == IF c \in DOMAIN UpperOf THEN UpperOf[c] ELSE c

\* str.lower()
RECURSIVE lower(_)
lower(s) == IF s = <<>> THEN <<>> ELSE <<LowerChar(Head(s))>> \o lower(Tail(s))

\* A capitalisation that touches the first character only.
CapitalizeFirstOnly(s) ==
    IF s = <<>> THEN <<>> ELSE <<UpperChar(s[1])>> \o Tail(s)

\* str.capitalize(): first character upper-cased, all the others lower-cased
capitalize(s) ==
    IF s = <<>> THEN <<>> ELSE <<UpperChar(s[1])>> \o lower(Tail(s))

\* str.startswith(prefix)
startswith(s, prefix) ==
    /\ Len(prefix) <= Len(s)
    /\ SubSeq(s, 1, Len(prefix)) = prefix

\* the decimal digits of a natural number
RECURSIVE NatToStr(_)
NatToStr(n) ==
    IF n < 10 THEN <<DigitChars[n + 1]>>
    ELSE NatToStr(n \div 10) \o <<DigitChars[(n % 10) + 1]>>

\* the value of a non-empty digit string
RECURSIVE DigitsVal(_)
DigitsVal(s) ==
    IF Len(s) = 1 THEN DigitVal(s[1])
    ELSE 10 * DigitsVal(SubSeq(s, 1, Len(s) - 1)) + DigitVal(s[Len(s)])

----------------------------------------------------------------------------
(* float(), repr(float) and the .2f format, on values in hundredths *)

\* float(s) for the decimal literals [sign] digits [. digits]; any other text
\* raises ValueError (ok = FALSE).  A third and later decimal are not
\* representable in hundredths and are outside the model's inputs.
ParseFloat(s) ==
    LET signed == Len(s) > 0 /\ s[1] \in {"-", "+"}
        body == IF signed THEN Tail(s) ELSE s
        dots == {i \in 1..Len(body) : body[i] = "."}
        ip == IF dots = {} THEN body
              ELSE SubSeq(body, 1, (CHOOSE i \in dots : TRUE) - 1)
        fp == IF dots = {} THEN <<>>
              ELSE SubSeq(body, (CHOOSE i \in dots : TRUE) + 1, Len(body))
        wellFormed == /\ Cardinality(dots) <= 1
                      /\ Len(fp) <= 2
                      /\ \A i \in 1..Len(ip) : IsDigit(ip[i])
                      /\ \A i \in 1..Len(fp) : IsDigit(fp[i])
                      /\ Len(ip) + Len(fp) > 0
        iv == IF ip = <<>> THEN 0 ELSE DigitsVal(ip)
        fv == IF fp = <<>> THEN 0
              ELSE IF Len(fp) = 1 THEN 10 * DigitVal(fp[1])
              ELSE DigitsVal(fp)
        mag == 100 * iv + fv
    IN IF wellFormed
       THEN [ok |-> TRUE,
             val |-> IF signed /\ s[1] = "-" THEN 0 - mag ELSE mag]
       ELSE [ok |-> FALSE, val |-> 0]

\* repr(x): the shortest decimal that reads back as x, always with a
\* fractional part ("10.0", "5.5", "5.25")
FloatRepr(v) ==
    LET mag == IF v < 0 THEN 0 - v ELSE v
        frac == mag % 100
        fs == IF frac % 10 = 0 THEN <<DigitChars[(frac \div 10) + 1]>>
              ELSE <<DigitChars[(frac \div 10) + 1], DigitChars[(frac % 10) + 1]>>
    IN (IF v < 0 THEN <<"-">> ELSE <<>>) \o NatToStr(mag \div 100) \o <<".">> \o fs

\* f"{x:.2f}"
Format2f(v) ==
    LET mag == IF v < 0 THEN 0 - v ELSE v
        frac == mag % 100
    IN (IF v < 0 THEN <<"-">> ELSE <<>>) \o NatToStr(mag \div 100) \o <<".">>
         \o <<DigitChars[(frac \div 10) + 1], DigitChars[(frac % 10) + 1]>>

----------------------------------------------------------------------------
(* datetime.datetime.strptime *)

IsLeap(y) == (y % 4 = 0 /\ y % 100 # 0) \/ y % 400 = 0

DaysInMonth(y, m) ==
    IF m = 2 THEN (IF IsLeap(y) THEN 29 ELSE 28)
    ELSE IF m \in {4, 6, 9, 11} THEN 30 ELSE 31

\* %Y followed by the literal "-": four digits; datetime rejects year 0
YearPrefixOk(s) ==
    /\ Len(s) >= 5
    /\ \A i \in 1..4 : IsDigit(s[i])
    /\ s[5] = "-"
    /\ DigitsVal(SubSeq(s, 1, 4)) >= 1

\* %m is the pattern 1[0-2]|0[1-9]|[1-9]: the month the text denotes, 0 if
\* the whole text does not match
MonthNum(m) ==
    IF Len(m) = 1 /\ IsDigit(m[1]) /\ m[1] # "0" THEN DigitVal(m[1])
    ELSE IF Len(m) = 2 /\ m[1] = "0" /\ IsDigit(m[2]) /\ m[2] # "0" THEN DigitVal(m[2])
    ELSE IF Len(m) = 2 /\ m[1] = "1" /\ m[2] \in {"0", "1", "2"} THEN 10 + DigitVal(m[2])
    ELSE 0

\* %d is the pattern 3[0-1]|[1-2]\d|0[1-9]|[1-9]| [1-9]
DayNum(d) ==
    IF Len(d) = 1 /\ IsDigit(d[1]) /\ d[1] # "0" THEN DigitVal(d[1])
    ELSE IF Len(d) = 2 /\ d[1] = "3" /\ d[2] \in {"0", "1"} THEN 30 + DigitVal(d[2])
    ELSE IF Len(d) = 2 /\ d[1] \in {"1", "2"} /\ IsDigit(d[2]) THEN DigitsVal(d)
    ELSE IF Len(d) = 2 /\ d[1] \in {"0", " "} /\ IsDigit(d[2]) /\ d[2] # "0"
         THEN DigitVal(d[2])
    ELSE 0

\* strptime(s, '%Y-%m') returns (does not raise ValueError)
StrptimeYm(s) ==
    /\ YearPrefixOk(s)
    /\ MonthNum(SubSeq(s, 6, Len(s))) > 0

\* strptime(s, '%Y-%m-%d') returns (does not raise ValueError)
StrptimeYmd(s) ==
    /\ YearPrefixOk(s)
    /\ LET rest == SubSeq(s, 6, Len(s))
           dashes == {i \in 1..Len(rest) : rest[i] = "-"}
       IN /\ Cardinality(dashes) = 1
          /\ LET p == CHOOSE i \in dashes : TRUE
                 mo == MonthNum(SubSeq(rest, 1, p - 1))
                 dy == DayNum(SubSeq(rest, p + 1, Len(rest)))
             IN /\ mo > 0
                /\ dy > 0
                /\ dy <= DaysInMonth(DigitsVal(SubSeq(s, 1, 4)), mo)

----------------------------------------------------------------------------
(* The csv module: writer (QUOTE_MINIMAL, doublequote) and reader *)

F_Date == <<"D", "a", "t", "e">>

F_Category == <<"C", "a", "t", "e", "g", "o", "r", "y">>

F_Amount == <<"A", "m", "o", "u", "n", "t">>

F_Description == <<"D", "e", "s", "c", "r", "i", "p", "t", "i", "o", "n">>

FIELD_NAMES == <<F_Date, F_Category, F_Amount, F_Description>>

\* restval of DictReader for a field a short row does not have
None == <<"None">>

\* the characters that force the writer to quote a field
NeedsQuote(f) == \E i \in 1..Len(f) : f[i] \in {",", "\"", "\n", "\r"}

RECURSIVE DoubleQuotes(_)
DoubleQuotes(f) ==
    IF f = <<>> THEN <<>>
    ELSE (IF Head(f) = "\"" THEN <<"\"", "\"">> ELSE <<Head(f)>>) \o DoubleQuotes(Tail(f))

\* A writer that never quotes a field.
CsvFieldUnquoted(f) == f

CsvField(f) ==
    IF NeedsQuote(f) THEN <<"\"">> \o DoubleQuotes(f) \o <<"\"">> ELSE f

\* writer.writerow(fields): the line written, without its terminator
RECURSIVE CsvWriteRow(_)
CsvWriteRow(fields) ==
    IF Len(fields) = 0 THEN <<>>
    ELSE IF Len(fields) = 1 THEN CsvField(fields[1])
    ELSE CsvField(Head(fields)) \o <<",">> \o CsvWriteRow(Tail(fields))

\* The reader's state machine over the characters of one line.  field holds
\* the part of the current field already taken; from is where the characters
\* not yet taken begin (they are added to field when the state changes).
RECURSIVE CsvParseFrom(_, _, _, _, _, _)
CsvParseFrom(line, i, st, from, field, fields) ==
    IF i > Len(line)
    THEN IF st = "START_RECORD" THEN <<>>
         ELSE Append(fields, field \o SubSeq(line, from, Len(line)))
    ELSE IF st = "IN_FIELD"
    THEN IF line[i] = ","
         THEN CsvParseFrom(line, i + 1, "START_FIELD", i + 1, <<>>,
                           Append(fields, field \o SubSeq(line, from, i - 1)))
         ELSE CsvParseFrom(line, i + 1, "IN_FIELD", from, field, fields)
    ELSE IF st = "IN_QUOTED_FIELD"
    THEN IF line[i] = "\""
         THEN CsvParseFrom(line, i + 1, "QUOTE_IN_QUOTED_FIELD", i + 1,
                           field \o SubSeq(line, from, i - 1), fields)
         ELSE CsvParseFrom(line, i + 1, "IN_QUOTED_FIELD", from, field, fields)
    ELSE IF st = "QUOTE_IN_QUOTED_FIELD"
    THEN IF line[i] = "\""          \* a doubled quote is one quote of the field
         THEN CsvParseFrom(line, i + 1, "IN_QUOTED_FIELD", i, field, fields)
         ELSE IF line[i] = ","
         THEN CsvParseFrom(line, i + 1, "START_FIELD", i + 1, <<>>, Append(fields, field))
         ELSE CsvParseFrom(line, i + 1, "IN_FIELD", i, field, fields)
    ELSE \* START_RECORD, START_FIELD
         IF line[i] = "\""
         THEN CsvParseFrom(line, i + 1, "IN_QUOTED_FIELD", i + 1, <<>>, fields)
         ELSE IF line[i] = ","
         THEN CsvParseFrom(line, i + 1, "START_FIELD", i + 1, <<>>, Append(fields, <<>>))
         ELSE CsvParseFrom(line, i + 1, "IN_FIELD", i, <<>>, fields)

\* one row of csv.reader
CsvParseLine(line) == CsvParseFrom(line, 1, "START_RECORD", 1, <<>>, <<>>)

\* dict(zip(fieldnames, row)) from field i on, a missing field reading None;
\* of two fields of one name the later wins
RECURSIVE RowDictFrom(_, _, _)
RowDictFrom(fieldnames, row, i) ==
    IF i > Len(fieldnames) THEN <<>>
    ELSE IF i = Len(fieldnames)
    THEN (fieldnames[i] :> (IF i <= Len(row) THEN row[i] ELSE None))
    ELSE RowDictFrom(fieldnames, row, i + 1)
           @@ (fieldnames[i] :> (IF i <= Len(row) THEN row[i] ELSE None))

RowDict(fieldnames, row) == RowDictFrom(fieldnames, row, 1)

\* the rows of the reader after the first: empty rows are skipped, every
\* other row becomes a dict
RECURSIVE DictRows(_, _)
DictRows(fieldnames, lines) ==
    IF lines = <<>> THEN <<>>
    ELSE LET row == CsvParseLine(Head(lines)) IN
         IF row = <<>> THEN DictRows(fieldnames, Tail(lines))
         ELSE <<RowDict(fieldnames, row)>> \o DictRows(fieldnames, Tail(lines))

\* list(csv.DictReader(f)): the first row names the fields
DictReader(lines) ==
    IF lines = <<>> THEN <<>>
    ELSE DictRows(CsvParseLine(Head(lines)), Tail(lines))

\* DictWriter.writerow(d): the values in FIELD_NAMES order, the float amount
\* written as its repr
DictWriteRow(d) ==
    CsvWriteRow(<<d[F_Date], d[F_Category], FloatRepr(d[F_Amount]), d[F_Description]>>)

\* DictWriter.writeheader()
HeaderLine == CsvWriteRow(FIELD_NAMES)

----------------------------------------------------------------------------
(* What the user types *)

\* dates: padded, unpadded day, next month; month 13, wrong field order, 30 February
DateInputs ==
    { <<"2", "0", "2", "5", "-", "0", "9", "-", "0", "5">>,
      <<"2", "0", "2", "5", "-", "0", "9", "-", "5">>,
      <<"2", "0", "2", "5", "-", "1", "0", "-", "0", "1">>,
      <<"2", "0", "2", "5", "-", "1", "3", "-", "0", "1">>,
      <<"0", "9", "-", "1", "5", "-", "2", "0", "2", "5">>,
      <<"2", "0", "2", "5", "-", "0", "2", "-", "3", "0">> }

\* amounts: 5.5, 10, -5, abc, 0
AmountInputs ==
    { <<"5", ".", "5">>, <<"1", "0">>, <<"-", "5">>, <<"a", "b", "c">>, <<"0">> }

\* categories: foOD, bus
CategoryInputs == { <<"f", "o", "O", "D">>, <<"b", "u", "s">> }

\* descriptions: a, "b"  (a comma and quotes, which the writer must quote)
DescriptionInputs == { <<"a", ",", " ", "\"", "b", "\"">> }

\* searches, as (mode typed, term typed): date / 2025-09-05, date / 2025-09,
\* Category / FOOD, category / 2025-09-05, amount / FOOD
SearchInputs ==
    { << <<"d", "a", "t", "e">>, <<"2", "0", "2", "5", "-", "0", "9", "-", "0", "5">> >>,
      << <<"d", "a", "t", "e">>, <<"2", "0", "2", "5", "-", "0", "9">> >>,
      << <<"C", "a", "t", "e", "g", "o", "r", "y">>, <<"F", "O", "O", "D">> >>,
      << <<"c", "a", "t", "e", "g", "o", "r", "y">>,
         <<"2", "0", "2", "5", "-", "0", "9", "-", "0", "5">> >>,
      << <<"a", "m", "o", "u", "n", "t">>, <<"F", "O", "O", "D">> >> }

\* months: 2025-09, 2025-1, 2025-13
MonthInputs ==
    { <<"2", "0", "2", "5", "-", "0", "9">>, <<"2", "0", "2", "5", "-", "1">>,
      <<"2", "0", "2", "5", "-", "1", "3">> }

\* menu inputs that are none of '1'..'5'
InvalidChoiceInputs == { "6", "1 " }

\* the outcome of opening expenses.csv: it opens, or open() raises OSError
\* (the file is left as it was)
IoOutcomes == { "ok", "fail" }

\* the narrower inputs of the ranking scenario: one date, two amounts, four categories
TopDateInputs == { <<"2", "0", "2", "5", "-", "0", "9", "-", "0", "5">> }

TopAmountInputs == { <<"5", ".", "5">>, <<"1", "0">> }

TopCategoryInputs ==
    { <<"f", "o", "O", "D">>, <<"b", "u", "s">>, <<"r", "e", "n", "t">>, <<"g", "y", "m">> }

TopDescriptionInputs == { <<>> }

TopMonthInputs == { <<"2", "0", "2", "5", "-", "0", "9">> }

----------------------------------------------------------------------------
(* State *)

\* main()'s choice before the first input() returns
NoChoice == "<unbound>"

Line(text, args) == [text |-> text, args |-> args]

Traceback(e) == Line("Traceback (most recent call last)", <<e>>)

NoFile == [exists |-> FALSE, lines |-> <<>>]

\* os.path.exists(FILE_NAME) and os.stat(FILE_NAME).st_size == 0
\* (every line is followed by a terminator, so a file with a line is not empty)
FileIsEmpty(f) == f.lines = <<>>

Init ==
    /\ pc = "start"
    /\ file = NoFile
    /\ choice = NoChoice
    /\ frame = [fn |-> "main"]
    /\ printed = <<>>
    /\ err = "none"
    /\ added = <<>>

\* an exception raised in fn leaves fn and main(), neither catches it: the
\* locals are gone, the interpreter prints the traceback and the process ends
Raise(fn, e, before) ==
    /\ pc' = "crashed"
    /\ err' = e
    /\ frame' = [fn |-> fn]
    /\ printed' = Append(before, Traceback(e))

----------------------------------------------------------------------------
(* init_file *)

\* An initialiser that rewrites the file on every start.
FileAfterInitTruncating(f) == [exists |-> TRUE, lines |-> <<HeaderLine>>]

\* the file after init_file: open('w') and writeheader() only if it is absent
FileAfterInit(f) ==
    IF ~f.exists THEN [exists |-> TRUE, lines |-> <<HeaderLine>>] ELSE f

init_file_from(ios) ==
    /\ pc = "start"
    /\ UNCHANGED <<choice, added>>
    /\ \E io \in ios :
         IF ~file.exists /\ io = "fail"
         THEN /\ Raise("init_file", "OSError", <<>>)
              /\ UNCHANGED file
         ELSE /\ file' = FileAfterInit(file)
              /\ frame' = [fn |-> "init_file"]
              /\ printed' = IF ~file.exists
                            THEN <<Line("Initialized new expense file: expenses.csv", <<>>)>>
                            ELSE <<>>
              /\ pc' = "menu"
              /\ err' = "none"

init_file == init_file_from(IoOutcomes)

----------------------------------------------------------------------------
(* add_expense *)

\* main(): choice '1' calls add_expense, which prints its banner and asks the date
main_add_from(cap) ==
    /\ pc = "menu"
    /\ Len(added) < cap
    /\ choice' = "1"
    /\ frame' = [fn |-> "add_expense"]
    /\ printed' = <<Line("--- Add New Expense ---", <<>>)>>
    /\ pc' = "add_date"
    /\ UNCHANGED <<file, err, added>>

\* one pass of the date loop
add_expense_date_from(dates) ==
    /\ pc = "add_date"
    /\ \E typed \in dates :
         /\ frame' = [fn |-> "add_expense", date_str |-> typed]
         /\ IF StrptimeYmd(typed)
            THEN /\ pc' = "add_amount"
                 /\ printed' = <<>>
            ELSE /\ pc' = "add_date"
                 /\ printed' = <<Line("Invalid date format. Please use YYYY-MM-DD.", <<>>)>>
    /\ UNCHANGED <<file, choice, err, added>>

\* one pass of the amount loop
add_expense_amount_from(amounts) ==
    /\ pc = "add_amount"
    /\ \E typed \in amounts :
         LET parsed == ParseFloat(typed) IN
         IF ~parsed.ok
         THEN /\ pc' = "add_amount"
              /\ frame' = frame
              /\ printed' = <<Line("Invalid amount. Please enter a number.", <<>>)>>
         ELSE /\ frame' = [fn |-> "add_expense", date_str |-> frame.date_str,
                           amount |-> parsed.val]
              /\ IF parsed.val <= 0
                 THEN /\ pc' = "add_amount"
                      /\ printed' = <<Line("Amount must be a positive number.", <<>>)>>
                 ELSE /\ pc' = "add_fields"
                      /\ printed' = <<>>
    /\ UNCHANGED <<file, choice, err, added>>

\* new_expense: the dict add_expense composes
NewExpense(date_str, category, amount, description) ==
    (F_Date :> date_str) @@ (F_Category :> capitalize(category))
      @@ (F_Amount :> amount) @@ (F_Description :> description)

\* open(FILE_NAME, 'a') and writer.writerow(new_expense): one more line
\* (mode 'a' creates the file if it is absent)
AppendRow(f, d) == [exists |-> TRUE, lines |-> Append(f.lines, DictWriteRow(d))]

\* category and description are read, the record is composed and written
add_expense_write_from(categories, descriptions, ios) ==
    /\ pc = "add_fields"
    /\ \E category \in categories, description \in descriptions, io \in ios :
         LET new_expense == NewExpense(frame.date_str, category, frame.amount, description) IN
         IF io = "fail"
            THEN /\ Raise("add_expense", "OSError", <<>>)
                 /\ UNCHANGED <<file, added>>
            ELSE /\ frame' = [fn |-> "add_expense", date_str |-> frame.date_str,
                              amount |-> frame.amount, category |-> category,
                              description |-> description, new_expense |-> new_expense]
                 /\ file' = AppendRow(file, new_expense)
                 /\ added' = Append(added, new_expense)
                 /\ printed' = <<Line("Expense added successfully!", <<>>)>>
                 /\ pc' = "menu"
                 /\ err' = "none"
    /\ UNCHANGED choice

main_add == main_add_from(MaxRecords)

add_expense_date == add_expense_date_from(DateInputs)

add_expense_amount == add_expense_amount_from(AmountInputs)

add_expense_write == add_expense_write_from(CategoryInputs, DescriptionInputs, IoOutcomes)

----------------------------------------------------------------------------
(* view_expenses *)

\* the line printed for one expense; float() of a text that is no number raises
ExpenseLine(e) ==
    Line("Date: {}, Category: {}, Amount: ${:.2f}, Description: {}",
         <<e[F_Date], e[F_Category], Format2f(ParseFloat(e[F_Amount]).val), e[F_Description]>>)

AmountsParse(rows) == \A i \in 1..Len(rows) : ParseFloat(rows[i][F_Amount]).ok

view_expenses_from(ios) ==
    /\ pc = "menu"
    /\ choice' = "2"
    /\ UNCHANGED <<file, added>>
    /\ LET banner == <<Line("--- All Expenses ---", <<>>)>> IN
       IF ~file.exists \/ FileIsEmpty(file)
       THEN /\ frame' = [fn |-> "view_expenses"]
            /\ printed' = Append(banner, Line("No expenses recorded yet.", <<>>))
            /\ pc' = "menu"
            /\ err' = "none"
       ELSE \E io \in ios :
              IF io = "fail"
              THEN Raise("view_expenses", "OSError", banner)
              ELSE \E data \in {DictReader(file.lines)} :
                   IF data = <<>>
                   THEN /\ frame' = [fn |-> "view_expenses", data |-> data]
                        /\ printed' = Append(banner, Line("No expenses found.", <<>>))
                        /\ pc' = "menu"
                        /\ err' = "none"
                   ELSE IF ~AmountsParse(data)
                   THEN Raise("view_expenses", "ValueError", banner)
                   ELSE /\ frame' = [fn |-> "view_expenses", data |-> data]
                        /\ printed' = banner \o [i \in 1..Len(data) |-> ExpenseLine(data[i])]
                        /\ pc' = "menu"
                        /\ err' = "none"

view_expenses == view_expenses_from(IoOutcomes)

----------------------------------------------------------------------------
(* search_expenses *)

S_date == <<"d", "a", "t", "e">>

S_category == <<"c", "a", "t", "e", "g", "o", "r", "y">>

\* A date comparison that accepts any date the term is a prefix of.
RowMatchesPrefix(row, search_by, search_term) ==
    \/ search_by = S_date /\ startswith(row[F_Date], search_term)
    \/ search_by = S_category /\ lower(row[F_Category]) = lower(search_term)

\* the condition under which the loop appends the row
RowMatches(row, search_by, search_term) ==
    \/ search_by = S_date /\ row[F_Date] = search_term
    \/ search_by = S_category /\ lower(row[F_Category]) = lower(search_term)

\* the for loop over the reader (rows: what the reader yields once the file
\* is open)
RECURSIVE SearchLoop(_, _, _, _)
SearchLoop(rows, search_by, search_term, found_expenses) ==
    IF rows = <<>> THEN found_expenses
    ELSE SearchLoop(Tail(rows), search_by, search_term,
                    IF RowMatches(Head(rows), search_by, search_term)
                    THEN Append(found_expenses, Head(rows))
                    ELSE found_expenses)

search_expenses_from(searches, ios) ==
    /\ pc = "menu"
    /\ choice' = "3"
    /\ UNCHANGED <<file, added>>
    /\ LET banner == <<Line("--- Search Expenses ---", <<>>)>> IN
       IF ~file.exists \/ FileIsEmpty(file)
       THEN /\ frame' = [fn |-> "search_expenses"]
            /\ printed' = Append(banner, Line("No expenses recorded yet.", <<>>))
            /\ pc' = "menu"
            /\ err' = "none"
       ELSE \E io \in ios :
            \* the mode and the term are read, then the file is opened; a
            \* failed open leaves no trace of what was typed
            IF io = "fail"
            THEN Raise("search_expenses", "OSError", banner)
            ELSE \E rows \in {DictReader(file.lines)} :
                 \E typed \in searches :
                 \E search_by \in {lower(typed[1])}, search_term \in {typed[2]} :
                 \E found_expenses \in {SearchLoop(rows, search_by, search_term, <<>>)} :
                   IF found_expenses # <<>> /\ ~AmountsParse(found_expenses)
                   THEN Raise("search_expenses", "ValueError",
                              Append(banner, Line("--- Search Results ---", <<>>)))
                   ELSE /\ frame' = [fn |-> "search_expenses", search_by |-> search_by,
                                     search_term |-> search_term,
                                     found_expenses |-> found_expenses]
                        /\ printed' =
                             IF found_expenses # <<>>
                             THEN Append(banner, Line("--- Search Results ---", <<>>))
                                  \o [i \in 1..Len(found_expenses) |->
                                        ExpenseLine(found_expenses[i])]
                             ELSE Append(banner, Line("No matching expenses found.", <<>>))
                        /\ pc' = "menu"
                        /\ err' = "none"

search_expenses == search_expenses_from(SearchInputs, IoOutcomes)

----------------------------------------------------------------------------
(* get_monthly_summary *)

\* the length of the top list
TopN == 3

\* An accumulation that keeps only the last amount of a category.
AddToCategoryOverwriting(category_totals, category, amount) ==
    IF \E i \in 1..Len(category_totals) : category_totals[i].category = category
    THEN [i \in 1..Len(category_totals) |->
            IF category_totals[i].category = category
            THEN [category |-> category, total |-> amount]
            ELSE category_totals[i]]
    ELSE Append(category_totals, [category |-> category, total |-> amount])

\* category_totals[category] += amount on a defaultdict(float): a dict keeps
\* its keys in first-insertion order, so it is a sequence of (category, total)
AddToCategory(category_totals, category, amount) ==
    IF \E i \in 1..Len(category_totals) : category_totals[i].category = category
    THEN [i \in 1..Len(category_totals) |->
            IF category_totals[i].category = category
            THEN [category |-> category, total |-> category_totals[i].total + amount]
            ELSE category_totals[i]]
    ELSE Append(category_totals, [category |-> category, total |-> 0 + amount])

\* the for loop over the reader; included is the history of the rows for
\* which the body of the if ran
RECURSIVE SummaryLoop(_, _, _)
SummaryLoop(rows, month_year_str, acc) ==
    IF rows = <<>> THEN acc
    ELSE LET row == Head(rows) IN
         IF startswith(row[F_Date], month_year_str)
         THEN LET amount == ParseFloat(row[F_Amount]).val
                  category == row[F_Category]
              IN SummaryLoop(Tail(rows), month_year_str,
                     [monthly_total |-> acc.monthly_total + amount,
                      category_totals |-> AddToCategory(acc.category_totals, category, amount),
                      included |-> Append(acc.included, row)])
         ELSE SummaryLoop(Tail(rows), month_year_str, acc)

\* An insertion that puts an item before the items of equal total.
InsertByTotalTiesReversed(sorted, item) ==
    LET smaller == {i \in 1..Len(sorted) : sorted[i].total <= item.total}
        p == IF smaller = {} THEN Len(sorted) + 1
             ELSE CHOOSE i \in smaller : \A j \in smaller : i <= j
    IN SubSeq(sorted, 1, p - 1) \o <<item>> \o SubSeq(sorted, p, Len(sorted))

\* the place of an item in a list sorted by descending total: after every
\* item whose total is not smaller
InsertByTotal(sorted, item) ==
    LET smaller == {i \in 1..Len(sorted) : sorted[i].total < item.total}
        p == IF smaller = {} THEN Len(sorted) + 1
             ELSE CHOOSE i \in smaller : \A j \in smaller : i <= j
    IN SubSeq(sorted, 1, p - 1) \o <<item>> \o SubSeq(sorted, p, Len(sorted))

\* sorted(category_totals.items(), key=lambda item: item[1], reverse=True):
\* a stable sort, equal totals keep their dict order
RECURSIVE SortedByTotal(_, _)
SortedByTotal(items, sorted) ==
    IF items = <<>> THEN sorted
    ELSE SortedByTotal(Tail(items), InsertByTotal(sorted, Head(items)))

\* sorted_categories[:3]
TopSlice(sorted_categories) ==
    SubSeq(sorted_categories, 1,
           IF Len(sorted_categories) < TopN THEN Len(sorted_categories) ELSE TopN)

CategoryLine(item) ==
    Line("{}: ${:.2f}", <<item.category, Format2f(item.total)>>)

TopLine(i, item) ==
    Line("{}. {}: ${:.2f}", <<i, item.category, Format2f(item.total)>>)

NotEnoughData == Line("Not enough data to determine top 3 categories.", <<>>)

\* everything printed after the totals are known to be non-zero
SummaryReport(month_year_str, monthly_total, category_totals, sorted_categories) ==
    << Line("Summary for {}:", <<month_year_str>>),
       Line("Total Expenses: ${:.2f}", <<Format2f(monthly_total)>>),
       Line("--- Summary by Category ---", <<>>) >>
    \o [i \in 1..Len(category_totals) |-> CategoryLine(category_totals[i])]
    \o << Line("--- Top 3 Expense Categories ---", <<>>) >>
    \o (IF Len(sorted_categories) < TopN THEN <<NotEnoughData>> ELSE <<>>)
    \o [i \in 1..Len(TopSlice(sorted_categories)) |-> TopLine(i, TopSlice(sorted_categories)[i])]

get_monthly_summary_from(months, ios) ==
    /\ pc = "menu"
    /\ choice' = "4"
    /\ UNCHANGED <<file, added>>
    /\ LET banner == <<Line("--- Monthly Expense Summary ---", <<>>)>> IN
       IF ~file.exists \/ FileIsEmpty(file)
       THEN /\ frame' = [fn |-> "get_monthly_summary"]
            /\ printed' = Append(banner, Line("No expenses recorded yet.", <<>>))
            /\ pc' = "menu"
            /\ err' = "none"
       ELSE \E rows \in {DictReader(file.lines)} :
            \E month_year_str \in months :
              IF ~StrptimeYm(month_year_str)
              THEN /\ frame' = [fn |-> "get_monthly_summary", month_year_str |-> month_year_str]
                   /\ printed' = Append(banner,
                          Line("Invalid month/year format. Please use YYYY-MM.", <<>>))
                   /\ pc' = "menu"
                   /\ err' = "none"
              ELSE \E io \in ios :   \* the file is opened after the month is validated
              IF io = "fail"
              THEN Raise("get_monthly_summary", "OSError", banner)
              ELSE \E acc \in {SummaryLoop(rows, month_year_str,
                                  [monthly_total |-> 0, category_totals |-> <<>>,
                                   included |-> <<>>])} :
                   \E sorted_categories \in {SortedByTotal(acc.category_totals, <<>>)} :
                      IF ~AmountsParse(SelectSeq(rows,
                             LAMBDA r : startswith(r[F_Date], month_year_str)))
                      THEN Raise("get_monthly_summary", "ValueError", banner)
                      ELSE IF acc.monthly_total = 0
                      THEN /\ frame' = [fn |-> "get_monthly_summary",
                                        month_year_str |-> month_year_str,
                                        monthly_total |-> acc.monthly_total,
                                        category_totals |-> acc.category_totals,
                                        included |-> acc.included]
                           /\ printed' = Append(banner,
                                  Line("No expenses found for {}.", <<month_year_str>>))
                           /\ pc' = "menu"
                           /\ err' = "none"
                      ELSE /\ frame' = [fn |-> "get_monthly_summary",
                                        month_year_str |-> month_year_str,
                                        monthly_total |-> acc.monthly_total,
                                        category_totals |-> acc.category_totals,
                                        included |-> acc.included,
                                        sorted_categories |-> sorted_categories]
                           /\ printed' = banner \o SummaryReport(month_year_str,
                                  acc.monthly_total, acc.category_totals, sorted_categories)
                           /\ pc' = "menu"
                           /\ err' = "none"

get_monthly_summary == get_monthly_summary_from(MonthInputs, IoOutcomes)

----------------------------------------------------------------------------
(* main: exit, invalid choice; the user starting the script again *)

main_exit ==
    /\ pc = "menu"
    /\ choice' = "5"
    /\ frame' = [fn |-> "main"]
    /\ printed' = <<Line("Exiting application. Goodbye!", <<>>)>>
    /\ pc' = "exited"
    /\ UNCHANGED <<file, err, added>>

main_invalid ==
    /\ pc = "menu"
    /\ \E typed \in InvalidChoiceInputs : choice' = typed
    /\ frame' = [fn |-> "main"]
    /\ printed' = <<Line("Invalid choice. Please enter a number from 1 to 5.", <<>>)>>
    /\ pc' = "menu"
    /\ UNCHANGED <<file, err, added>>

\* the process has ended; the script is run again on the same directory
Restart ==
    /\ pc \in {"exited", "crashed"}
    /\ pc' = "start"
    /\ choice' = NoChoice
    /\ frame' = [fn |-> "main"]
    /\ printed' = <<>>
    /\ err' = "none"
    /\ UNCHANGED <<file, added>>

Next ==
    \/ init_file
    \/ main_add
    \/ add_expense_date
    \/ add_expense_amount
    \/ add_expense_write
    \/ view_expenses
    \/ search_expenses
    \/ get_monthly_summary
    \/ main_exit
    \/ main_invalid
    \/ Restart

Spec == Init /\ [][Next]_vars

----------------------------------------------------------------------------
(* The ranking scenario: an initialised store, up to MaxTopRecords records   *)
(* of one month over four categories, every open succeeding                 *)

InitTop ==
    /\ pc = "menu"
    /\ file = FileAfterInit(NoFile)
    /\ choice = NoChoice
    /\ frame = [fn |-> "init_file"]
    /\ printed = <<Line("Initialized new expense file: expenses.csv", <<>>)>>
    /\ err = "none"
    /\ added = <<>>

top_main_add == main_add_from(MaxTopRecords)

top_add_expense_date == add_expense_date_from(TopDateInputs)

top_add_expense_amount == add_expense_amount_from(TopAmountInputs)

top_add_expense_write == add_expense_write_from(TopCategoryInputs, TopDescriptionInputs, {"ok"})

top_get_monthly_summary == get_monthly_summary_from(TopMonthInputs, {"ok"})

NextTop ==
    \/ top_main_add
    \/ top_add_expense_date
    \/ top_add_expense_amount
    \/ top_add_expense_write
    \/ top_get_monthly_summary

SpecTop == InitTop /\ [][NextTop]_vars

----------------------------------------------------------------------------
(* Properties *)

Last(q) == q[Len(q)]

\* the records a reader finds in the file now
Stored == DictReader(file.lines)

\* a text of the exact form YYYY-MM-DD that names a day of the calendar
IsIsoDate(d) ==
    /\ Len(d) = 10
    /\ \A i \in {1, 2, 3, 4, 6, 7, 9, 10} : IsDigit(d[i])
    /\ d[5] = "-"
    /\ d[8] = "-"
    /\ DigitsVal(SubSeq(d, 1, 4)) >= 1
    /\ DigitsVal(SubSeq(d, 6, 7)) \in 1..12
    /\ DigitsVal(SubSeq(d, 9, 10)) >= 1
    /\ DigitsVal(SubSeq(d, 9, 10))
         <= DaysInMonth(DigitsVal(SubSeq(d, 1, 4)), DigitsVal(SubSeq(d, 6, 7)))

\* C1: every record in the backing store has an amount strictly greater than
\* zero and a date that is a valid calendar date written in YYYY-MM-DD form.
\* The code stores the unpadded date 2025-09-5, which strptime accepts.
C1_StoredRecordsValid ==
    \A stored \in {Stored} : \A i \in 1..Len(stored) :
        /\ ParseFloat(stored[i][F_Amount]).ok
        /\ ParseFloat(stored[i][F_Amount]).val > 0
        /\ IsIsoDate(stored[i][F_Date])

\* the dict a composed record is read back as: the amount is its repr text
ReadBack(d) == [d EXCEPT ![F_Amount] = FloatRepr(d[F_Amount])]

RECURSIVE ReadBackAll(_)
ReadBackAll(records) ==
    IF records = <<>> THEN <<>>
    ELSE <<ReadBack(Head(records))>> \o ReadBackAll(Tail(records))

\* C2: the store is append-only.  In every state the file reads back as
\* exactly the records of the completed add operations, in insertion order,
\* each amount text parsing to the amount composed; view, search, summary
\* and an invalid choice leave the file as it is; and no step at all removes,
\* changes or reorders a line that is already there.
C2_AppendOnly ==
    /\ [](file.exists =>
            \A stored \in {Stored} :
              /\ stored = ReadBackAll(added)
              /\ \A i \in 1..Len(added) :
                   ParseFloat(stored[i][F_Amount]).val = added[i][F_Amount])
    /\ [][ /\ (pc = "menu" /\ choice' # "1") => file' = file
           /\ file.exists =>
                /\ file'.exists
                /\ Len(file'.lines) \in {Len(file.lines), Len(file.lines) + 1}
                /\ SubSeq(file'.lines, 1, Len(file.lines)) = file.lines ]_vars

\* two different records were added and a search was then run over them
C2_Witness ==
    /\ pc = "menu"
    /\ frame.fn = "search_expenses"
    /\ Len(added) = 2
    /\ added[1] # added[2]
    /\ Len(Stored) = 2

\* C3: an I/O failure during add, view, search or summary is fatal to the
\* current operation only: control is back at the main menu.  In the code
\* nothing catches the OSError, and the process ends.
C3_StorageFailureReturnsToMenu ==
    (err = "OSError" /\ frame.fn \in {"add_expense", "view_expenses",
                                      "search_expenses", "get_monthly_summary"})
        => pc = "menu"

\* add_expense has just written the record it composed
JustAdded == frame.fn = "add_expense" /\ "new_expense" \in DOMAIN frame /\ pc = "menu"

\* C4 as stated: the stored category is the typed one with its first letter
\* capitalized and every other character exactly as typed.
C4_RestLeftAsTyped ==
    JustAdded =>
        LET typed == frame.category
            stored == Last(Stored)[F_Category]
        IN /\ Len(stored) = Len(typed)
           /\ typed # <<>> => stored[1] = UpperChar(typed[1])
           /\ \A i \in 2..Len(typed) : stored[i] = typed[i]

\* C4 as amended: the stored category is the typed one with its first
\* character upper-cased and every other character lower-cased.
C4_RestLowered ==
    JustAdded =>
        LET typed == frame.category
            stored == Last(Stored)[F_Category]
        IN /\ Len(stored) = Len(typed)
           /\ typed # <<>> => stored[1] = UpperChar(typed[1])
           /\ \A i \in 2..Len(typed) : stored[i] = LowerChar(typed[i])

\* foOD was typed and Food is in the file
C4_Witness ==
    /\ JustAdded
    /\ frame.category = <<"f", "o", "O", "D">>
    /\ Last(Stored)[F_Category] = <<"F", "o", "o", "d">>

\* search_expenses has returned with a result
Searched == frame.fn = "search_expenses" /\ "found_expenses" \in DOMAIN frame

EqualsIgnoringCase(a, b) ==
    /\ Len(a) = Len(b)
    /\ \A i \in 1..Len(a) : LowerChar(a[i]) = LowerChar(b[i])

\* the records the search is to return
Wanted(row, mode, term) ==
    \/ mode = S_date /\ row[F_Date] = term
    \/ mode = S_category /\ EqualsIgnoringCase(row[F_Category], term)

\* C5: search returns, in file order, exactly the records whose date equals
\* the term (mode date) or whose category equals the term ignoring case (mode
\* category); for any other mode the result is empty; an empty result is
\* reported as no matches.  The mode is search_by, the typed mode lower-cased.
C5_SearchResult ==
    Searched =>
        \A stored \in {Stored} :
        \A hits \in {{i \in 1..Len(stored) :
                        Wanted(stored[i], frame.search_by, frame.search_term)}} :
        LET found == frame.found_expenses
        IN /\ Len(found) = Cardinality(hits)
           /\ \A k \in 1..Len(found) :
                \E i \in hits : /\ Cardinality({j \in hits : j <= i}) = k
                                /\ found[k] = stored[i]
           /\ frame.search_by \notin {S_date, S_category} => found = <<>>
           /\ found = <<>> <=> Last(printed).text = "No matching expenses found."

\* the store holds 2025-09-05 and 2025-09-5, and the search for the date
\* 2025-09-05 found the first only
C5_Witness ==
    /\ Searched
    /\ frame.search_by = S_date
    /\ frame.search_term = <<"2", "0", "2", "5", "-", "0", "9", "-", "0", "5">>
    /\ Len(Stored) = 2
    /\ Stored[2][F_Date] = <<"2", "0", "2", "5", "-", "0", "9", "-", "5">>
    /\ frame.found_expenses = <<Stored[1]>>

\* get_monthly_summary accepted the month and ran its loop
Summarized == frame.fn = "get_monthly_summary" /\ "monthly_total" \in DOMAIN frame

\* a text of the exact form YYYY-MM
IsYearMonth(m) ==
    /\ Len(m) = 7
    /\ \A i \in {1, 2, 3, 4, 6, 7} : IsDigit(m[i])
    /\ m[5] = "-"
    /\ DigitsVal(SubSeq(m, 6, 7)) \in 1..12

\* the (year, month) of a stored date and of an accepted month input
MonthOfDate(d) ==
    LET rest == SubSeq(d, 6, Len(d))
        p == CHOOSE i \in 1..Len(rest) : rest[i] = "-"
    IN <<DigitsVal(SubSeq(d, 1, 4)), MonthNum(SubSeq(rest, 1, p - 1))>>

MonthOfInput(m) == <<DigitsVal(SubSeq(m, 1, 4)), MonthNum(SubSeq(m, 6, Len(m)))>>

\* C6: a month input the summary accepts has exactly the form YYYY-MM and no
\* record of another calendar month is included; an input not of that form
\* gets the invalid-format report.  The code accepts 2025-1 and then
\* includes the records of October.
C6_MonthFormAndFilter ==
    /\ Summarized =>
         /\ IsYearMonth(frame.month_year_str)
         /\ \A i \in 1..Len(frame.included) :
              MonthOfDate(frame.included[i][F_Date]) = MonthOfInput(frame.month_year_str)
    /\ (frame.fn = "get_monthly_summary" /\ "month_year_str" \in DOMAIN frame
          /\ ~IsYearMonth(frame.month_year_str))
         => Last(printed).text = "Invalid month/year format. Please use YYYY-MM."

RECURSIVE SumAmounts(_)
SumAmounts(rows) ==
    IF rows = <<>> THEN 0
    ELSE ParseFloat(Head(rows)[F_Amount]).val + SumAmounts(Tail(rows))

RECURSIVE SumTotals(_)
SumTotals(items) ==
    IF items = <<>> THEN 0 ELSE Head(items).total + SumTotals(Tail(items))

\* C7: the grand total is the sum of the amounts of the records whose date
\* starts with the prefix; the categories listed are those of the matching
\* records, each once, each with the sum of the amounts of the matching
\* records of exactly that category; the subtotals add up to the grand
\* total; the total and the subtotals are what is printed; and "No expenses
\* found" is reported exactly when no record matches.
C7_SummaryTotals ==
    Summarized =>
        \A matching \in {SelectSeq(Stored,
                            LAMBDA r : startswith(r[F_Date], frame.month_year_str))} :
        LET m == frame.month_year_str
            ct == frame.category_totals
        IN /\ frame.monthly_total = SumAmounts(matching)
           /\ {ct[i].category : i \in 1..Len(ct)}
                = {matching[i][F_Category] : i \in 1..Len(matching)}
           /\ \A i, j \in 1..Len(ct) : ct[i].category = ct[j].category => i = j
           /\ \A i \in 1..Len(ct) :
                ct[i].total = SumAmounts(SelectSeq(matching,
                                  LAMBDA r : r[F_Category] = ct[i].category))
           /\ SumTotals(ct) = frame.monthly_total
           /\ matching = <<>> <=> Last(printed) = Line("No expenses found for {}.", <<m>>)
           /\ matching # <<>> =>
                /\ printed[3] = Line("Total Expenses: ${:.2f}", <<Format2f(SumAmounts(matching))>>)
                /\ \A i \in 1..Len(ct) :
                     printed[4 + i] = Line("{}: ${:.2f}",
                                           <<ct[i].category, Format2f(ct[i].total)>>)

\* two records of September in one category and the summary of 2025-09
C7_Witness ==
    /\ Summarized
    /\ frame.month_year_str = <<"2", "0", "2", "5", "-", "0", "9">>
    /\ Len(frame.included) = 2
    /\ Len(frame.category_totals) = 1
    /\ frame.monthly_total = 1550

\* get_monthly_summary found expenses and printed its report
Ranked == frame.fn = "get_monthly_summary" /\ "sorted_categories" \in DOMAIN frame

\* category i is to be listed before category j: a larger subtotal, or an
\* equal one and seen first
Ahead(ct, i, j) ==
    \/ ct[i].total > ct[j].total
    \/ ct[i].total = ct[j].total /\ i < j

\* C8: with at least one matching record, the top list is the min(3, number
\* of categories) categories of largest subtotal, in descending order of
\* subtotal, ties in first-seen order; it is the end of the report; and the
\* "not enough data" notice stands between the heading and the list exactly
\* when there are fewer than three categories.
C8_TopThree ==
    Ranked =>
        LET ct == frame.category_totals
            n == Len(ct)
            k == IF n < 3 THEN n ELSE 3
            base == Len(printed) - k
        IN /\ n >= 1
           /\ \A r \in 1..k :
                \E i \in 1..n :
                   /\ Cardinality({j \in 1..n : Ahead(ct, j, i)}) = r - 1
                   /\ printed[base + r]
                        = Line("{}. {}: ${:.2f}", <<r, ct[i].category, Format2f(ct[i].total)>>)
           /\ \A q \in 1..base : printed[q].text # "{}. {}: ${:.2f}"
           /\ IF n < 3
              THEN /\ printed[base] = NotEnoughData
                   /\ printed[base - 1].text = "--- Top 3 Expense Categories ---"
              ELSE /\ printed[base].text = "--- Top 3 Expense Categories ---"
                   /\ \A q \in 1..Len(printed) : printed[q] # NotEnoughData

\* four categories, the first seen with the smallest subtotal and two of the
\* others tied: the list is not in first-seen order and leaves one out
C8_Witness ==
    /\ Ranked
    /\ Len(frame.category_totals) = 4
    /\ frame.category_totals[1].total < frame.category_totals[2].total
    /\ frame.category_totals[2].total = frame.category_totals[4].total
    /\ frame.category_totals[3].total < frame.category_totals[4].total

\* C9: the menu loop ends only when the choice is exactly '5'; an input that
\* is none of '1'..'5' gets the rejection message, touches nothing and
\* leaves the program at the menu.  In the code an OSError raised by the
\* operation chosen ends the loop as well.
C9_LoopEndsOnlyOnExit ==
    /\ (pc \in {"exited", "crashed"} /\ choice # NoChoice) => choice = "5"
    /\ (choice \notin {NoChoice, "1", "2", "3", "4", "5"}) =>
          /\ pc = "menu"
          /\ printed = <<Line("Invalid choice. Please enter a number from 1 to 5.", <<>>)>>

\* C10: init_file creates the file, holding the one header row
\* Date,Category,Amount,Description, only when the file is absent; when the
\* file exists, on every start of the program, it is left as it is.
C10_InitFileIdempotent ==
    [][ pc = "start" =>
          IF file.exists
          THEN file' = file
          ELSE \/ file' = file
               \/ file' = [exists |-> TRUE,
                           lines |-> << <<"D", "a", "t", "e", ",",
                                         "C", "a", "t", "e", "g", "o", "r", "y", ",",
                                         "A", "m", "o", "u", "n", "t", ",",
                                         "D", "e", "s", "c", "r", "i", "p", "t", "i", "o", "n">> >>]
      ]_vars

\* the program was started again and init_file ran over a file with records
C10_Witness ==
    /\ pc = "menu"
    /\ frame.fn = "init_file"
    /\ Len(Stored) >= 1

====
